---- MODULE Spec2Model ----
(***************************************************************************)
(* Model of src/lib.rs of flamegraph: the orchestration of one sampling   *)
(* run, generate_flamegraph_by_running_command, with the two backends of  *)
(* mod arch (perf on linux, dtrace elsewhere), the exit-status classifier *)
(* terminated_by_error, and the environment the run interacts with: the   *)
(* sampling child, the interrupt signal, the files it reads and writes.   *)
(***************************************************************************)
EXTENDS Integers, Sequences, FiniteSets

(***************************************************************************)
(* Bounds of the model.                                                    *)
(***************************************************************************)
\* exit codes 0..MaxExitCode of a child that exited normally
MaxExitCode == 2
\* signals 1..MaxSignal that may terminate the child (covers SIGINT, SIGTERM)
MaxSignal == 15
\* interrupt signals delivered to the orchestrator during one run
MaxSigints == 1
\* characters of the workload string
MaxWorkloadLen == 3

(***************************************************************************)
(* Program constants.                                                      *)
(***************************************************************************)
SIGINT == 2
SIGTERM == 15
\* status with which a Rust process ends when its main thread panics,
\* which is what a failed .expect() does
PanicExitCode == 101

None == -1

(***************************************************************************)
(* std::process::ExitStatus on unix: a raw wait status.  The low 7 bits   *)
(* hold the terminating signal (0 when the child exited), bit 7 the core  *)
(* flag, bits 8..15 the exit code.                                         *)
(***************************************************************************)
ExitedWith(code) == 256 * code
SignaledWith(sig, core) == sig + 128 * core

Statuses ==
    {ExitedWith(c) : c \in 0..MaxExitCode}
        \cup {SignaledWith(s, k) : s \in 1..MaxSignal, k \in 0..1}

\* ExitStatus::signal(): Some(sig) iff the child was terminated by a signal
signal(status) ==
    IF status % 128 # 0 /\ status % 128 # 127 THEN status % 128 ELSE None

\* ExitStatus::success(): the child exited, with code 0
success(status) == status % 128 = 0 /\ (status \div 256) = 0

\* terminated_by_error with the second conjunct dropped
terminated_by_error_no_success(status) ==
    IF signal(status) = None
    THEN TRUE
    ELSE signal(status) # SIGINT /\ signal(status) # SIGTERM

\* terminated_by_error with the two signal tests joined by || instead of &&
terminated_by_error_or(status) ==
    /\ IF signal(status) = None
       THEN TRUE
       ELSE signal(status) # SIGINT \/ signal(status) # SIGTERM
    /\ ~success(status)

\* terminated_by_error that takes every signal as a user interrupt
terminated_by_error_any_signal(status) ==
    /\ signal(status) = None
    /\ ~success(status)

\* terminated_by_error that never reports an error
terminated_by_error_never(status) == FALSE

\* terminated_by_error that tests success only
terminated_by_error_success_only(status) == ~success(status)

\* #[cfg(unix)] fn terminated_by_error(status: ExitStatus) -> bool
terminated_by_error(status) ==
    /\ IF signal(status) = None
       THEN TRUE
       ELSE signal(status) # SIGINT /\ signal(status) # SIGTERM
    /\ ~success(status)

(***************************************************************************)
(* mod arch: the constants of the two backends.                            *)
(***************************************************************************)
Backends == {"perf", "dtrace"}

SPAWN_ERROR(b) ==
    IF b = "perf" THEN "could not spawn perf" ELSE "could not spawn dtrace"

WAIT_ERROR(b) ==
    IF b = "perf"
    THEN "unable to wait for perf child command to exit"
    ELSE "unable to wait for dtrace child command to exit"

\* the characters a workload is written with; " " is the whitespace
Chars == {"a", "b", " "}
Whitespace == {" "}

Workloads == UNION {[1..n -> Chars] : n \in 0..MaxWorkloadLen}

RECURSIVE split(_, _, _)
split(s, cur, acc) ==
    IF s = << >>
    THEN IF cur = << >> THEN acc ELSE Append(acc, cur)
    ELSE IF Head(s) \in Whitespace
         THEN split(Tail(s), << >>, IF cur = << >> THEN acc ELSE Append(acc, cur))
         ELSE split(Tail(s), Append(cur, Head(s)), acc)

\* split_whitespace that loses the token the string ends with
split_whitespace_drop_last(s) ==
    LET r == split(s, << >>, << >>)
    IN  IF r = << >> THEN r ELSE SubSeq(r, 1, Len(r) - 1)

\* str::split_whitespace: the maximal runs of non-whitespace characters
split_whitespace(s) == split(s, << >>, << >>)

\* the literal "record -F 99 --call-graph dwarf -g", character by character
PerfFlags ==
    << "r", "e", "c", "o", "r", "d", " ", "-", "F", " ", "9", "9", " ",
       "-", "-", "c", "a", "l", "l", "-", "g", "r", "a", "p", "h", " ",
       "d", "w", "a", "r", "f", " ", "-", "g" >>

\* the dtrace script, kept as one piece of text
dtrace_script == << "profile-997 /pid == $target/ { @[ustack(100)] = count(); }" >>

\* linux arch::initial_command: every argument is a sequence of characters
initial_command_perf(workload) ==
    [program |-> "perf",
     args |-> split_whitespace(PerfFlags) \o split_whitespace(workload)]

\* non-linux arch::initial_command: the literal arguments are one piece of
\* text each, the workload is one argument, unsplit
initial_command_dtrace(workload) ==
    [program |-> "dtrace",
     args |-> << << "-xmangled" >>, << "-x" >>, << "ustackframes=100" >>,
                 << "-n" >>, dtrace_script,
                 << "-o" >>, << "cargo-flamegraph.stacks" >>,
                 << "-c" >>, workload >>]

initial_command(b, workload) ==
    IF b = "perf"
    THEN initial_command_perf(workload)
    ELSE initial_command_dtrace(workload)

NoCommand == [program |-> "", args |-> << >>]

(***************************************************************************)
(* State.                                                                  *)
(***************************************************************************)
VARIABLES
    pc,            \* position of generate_flamegraph_by_running_command
    backend,       \* which mod arch was compiled in
    workload,      \* the workload string the caller passed
    command,       \* the Command initial_command built, NoCommand before
    prior,         \* disposition of SIGINT before the run
    disposition,   \* disposition of SIGINT now: SIG_DFL, SIG_IGN or hook
    actions,       \* the actions signal_hook holds for SIGINT
    handler,       \* the SigId register returned, None before
    child,         \* the sampling process: none, running, exited, reaped
    child_status,  \* wait status of the exited child, None before
    exit_status,   \* what recorder.wait() returned, None before
    stacks,        \* whether the file cargo-flamegraph.stacks exists
    output_calls,  \* number of calls of arch::output
    stage,         \* data in hand: none, raw, collapsed
    announced,     \* whether "writing flamegraph to" went to stdout
    artifact,      \* file at flamegraph_filename: absent, old, empty,
                   \* partial, written
    stderr,        \* the message this run wrote to stderr, "" if none
    exit_code,     \* exit code of the process, None while it runs
    sigints,       \* interrupt signals delivered to the orchestrator
    delivered,     \* positions at which they were delivered
    log            \* the steps the run has completed, in order

vars ==
    << pc, backend, workload, command, prior, disposition, actions, handler, child, child_status,
       exit_status, stacks, output_calls, stage, announced, artifact, stderr,
       exit_code, sigints, delivered, log >>

sigvars == << disposition, actions, handler >>
childvars == << child, child_status, exit_status >>
datavars == << stacks, output_calls, stage, announced, artifact >>
envvars == << backend, workload, prior, sigints, delivered >>

Terminal == {"done", "aborted", "killed"}

\* the SigId of the one action this run registers
TheSigId == 1

Init ==
    /\ pc = "register"
    /\ backend \in Backends
    /\ workload \in Workloads
    /\ command = NoCommand
    /\ prior \in {"SIG_DFL", "SIG_IGN"}
    /\ disposition = prior
    /\ actions = {}
    /\ handler = None
    /\ child = "none"
    /\ child_status = None
    /\ exit_status = None
    /\ stacks \in BOOLEAN
    /\ output_calls = 0
    /\ stage = "none"
    /\ announced = FALSE
    /\ artifact \in {"absent", "old"}
    /\ stderr = ""
    /\ exit_code = None
    /\ sigints = 0
    /\ delivered = {}
    /\ log = << >>

\* a failed .expect(msg): the panic message goes to stderr and the process
\* ends with the panic status; nothing else of the function runs
Panic(msg) ==
    /\ pc' = "aborted"
    /\ stderr' = msg
    /\ exit_code' = PanicExitCode
    /\ UNCHANGED log

\* the function goes on to its next statement
Goto(next, step) ==
    /\ pc' = next
    /\ log' = Append(log, step)
    /\ UNCHANGED << stderr, exit_code >>

(***************************************************************************)
(* The environment: the interrupt signal and the sampling child.           *)
(***************************************************************************)

\* An interrupt signal reaches the orchestrator.  Under the default
\* disposition it terminates the process; under signal_hook's handler the
\* registered actions run (the one this run registers is the empty closure
\* || {}), and with no action left nothing happens.
Sigint ==
    /\ pc \notin Terminal
    /\ sigints < MaxSigints
    /\ sigints' = sigints + 1
    /\ delivered' = delivered \cup {pc}
    /\ pc' = IF disposition = "SIG_DFL" THEN "killed" ELSE pc
    /\ UNCHANGED << backend, workload, command, prior, sigvars, childvars,
                    datavars, stderr, exit_code, log >>

\* The sampling child ends with some wait status, by itself or because a
\* signal ended it.  dtrace writes its -o file; it may also end without.
ChildExit(status) ==
    /\ child = "running"
    /\ child' = "exited"
    /\ child_status' = status
    /\ stacks' \in IF backend = "dtrace" THEN {stacks, TRUE} ELSE {stacks}
    /\ UNCHANGED << pc, envvars, command, sigvars, exit_status, output_calls, stage,
                    announced, artifact, stderr, exit_code, log >>

(***************************************************************************)
(* generate_flamegraph_by_running_command, statement by statement.         *)
(***************************************************************************)

\* register that returns an id without installing anything
RegisterNoInstall ==
    /\ pc = "register"
    /\ \/ /\ handler' = TheSigId
          /\ UNCHANGED << actions, disposition >>
          /\ Goto("build", "register")
       \/ /\ Panic("cannot register signal handler")
          /\ UNCHANGED sigvars
    /\ UNCHANGED << envvars, command, childvars, datavars >>

\* register whose failure is not looked at
RegisterIgnoreFailure ==
    /\ pc = "register"
    /\ \/ /\ handler' = TheSigId
          /\ actions' = actions \cup {TheSigId}
          /\ disposition' = "hook"
          /\ Goto("build", "register")
       \/ /\ UNCHANGED sigvars
          /\ Goto("build", "register")
    /\ UNCHANGED << envvars, command, childvars, datavars >>

\* signal_hook::register(SIGINT, || {}).expect(..): signal_hook installs its
\* own handler for the signal and adds the action to the ones it runs
Register ==
    /\ pc = "register"
    /\ \/ /\ handler' = TheSigId
          /\ actions' = actions \cup {TheSigId}
          /\ disposition' = "hook"
          /\ Goto("build", "register")
       \/ /\ Panic("cannot register signal handler")
          /\ UNCHANGED sigvars
    /\ UNCHANGED << envvars, command, childvars, datavars >>

\* let mut command = arch::initial_command(workload);
Build ==
    /\ pc = "build"
    /\ command' = initial_command(backend, workload)
    /\ Goto("spawn", "build")
    /\ UNCHANGED << envvars, sigvars, childvars, datavars >>

\* command.spawn().expect(SPAWN_ERROR)
Spawn ==
    /\ pc = "spawn"
    /\ \/ /\ child' = "running"
          /\ Goto("wait", "spawn")
       \/ /\ Panic(SPAWN_ERROR(backend))
          /\ UNCHANGED child
    /\ UNCHANGED << envvars, command, sigvars, child_status, exit_status, datavars >>

\* wait that gives up while the child still runs
WaitNoBlock ==
    /\ pc = "wait"
    /\ \/ /\ child \in {"running", "exited"}
          /\ child' = IF child = "exited" THEN "reaped" ELSE child
          /\ exit_status' = IF child = "exited" THEN child_status ELSE ExitedWith(0)
          /\ Goto("unregister", "wait")
       \/ /\ child = "exited"
          /\ Panic(WAIT_ERROR(backend))
          /\ UNCHANGED << child, exit_status >>
    /\ UNCHANGED << envvars, command, sigvars, child_status, datavars >>

\* recorder.wait().expect(WAIT_ERROR): blocks, without timeout, until the
\* child has ended; then it returns the status, or the error of waitpid
\* when the child could not be waited for (it is not this process's to
\* reap any more)
Wait ==
    /\ pc = "wait"
    /\ child = "exited"
    /\ \/ /\ child' = "reaped"
          /\ exit_status' = child_status
          /\ Goto("unregister", "wait")
       \/ /\ Panic(WAIT_ERROR(backend))
          /\ UNCHANGED << child, exit_status >>
    /\ UNCHANGED << envvars, command, sigvars, child_status, datavars >>

\* unregister that puts the disposition of before register back
UnregisterRestore ==
    /\ pc = "unregister"
    /\ actions' = actions \ {handler}
    /\ disposition' = prior
    /\ Goto("classify", "unregister")
    /\ UNCHANGED << envvars, command, handler, childvars, datavars >>

\* signal_hook::unregister(handler): removes the action.  signal_hook does
\* not put back the previous or default handler when the last action of a
\* signal goes: its own handler stays, with nothing to run.
Unregister ==
    /\ pc = "unregister"
    /\ actions' = actions \ {handler}
    /\ UNCHANGED disposition
    /\ Goto("classify", "unregister")
    /\ UNCHANGED << envvars, command, handler, childvars, datavars >>

\* the test of terminated_by_error with exit(0) for exit(1)
ClassifyExit0 ==
    /\ pc = "classify"
    /\ IF terminated_by_error(exit_status)
       THEN /\ stderr' = "failed to sample program"
            /\ exit_code' = 0
            /\ pc' = "aborted"
            /\ UNCHANGED log
       ELSE Goto("output", "classify")
    /\ UNCHANGED << envvars, command, sigvars, childvars, datavars >>

\* the test of terminated_by_error without the exit: the message is
\* printed and the run goes on
ClassifyNoExit ==
    /\ pc = "classify"
    /\ IF terminated_by_error(exit_status)
       THEN /\ stderr' = "failed to sample program"
            /\ pc' = "output"
            /\ log' = Append(log, "classify")
            /\ UNCHANGED exit_code
       ELSE Goto("output", "classify")
    /\ UNCHANGED << envvars, command, sigvars, childvars, datavars >>

\* if terminated_by_error(exit_status) { eprintln!(..); exit(1) }
Classify ==
    /\ pc = "classify"
    /\ IF terminated_by_error(exit_status)
       THEN /\ stderr' = "failed to sample program"
            /\ exit_code' = 1
            /\ pc' = "aborted"
            /\ UNCHANGED log
       ELSE Goto("output", "classify")
    /\ UNCHANGED << envvars, command, sigvars, childvars, datavars >>

\* linux arch::output: perf script, its stdout captured
output_perf ==
    /\ backend = "perf"
    /\ \/ /\ stage' = "raw"
          /\ Goto("collapse", "output")
       \/ /\ Panic("unable to call perf script")
          /\ UNCHANGED stage
    /\ UNCHANGED stacks

\* arch::output of dtrace without the remove_file
output_dtrace_keep ==
    /\ backend = "dtrace"
    /\ \/ /\ stacks
          /\ stacks' = stacks
          /\ stage' = "raw"
          /\ Goto("collapse", "output")
       \/ /\ Panic("failed to open dtrace output file cargo-flamegraph.stacks")
          /\ UNCHANGED << stacks, stage >>
       \/ /\ stacks
          /\ Panic("failed to read dtrace expected output file cargo-flamegraph.stacks")
          /\ UNCHANGED << stacks, stage >>

\* arch::output of dtrace that goes on when remove_file fails
output_dtrace_ignore_remove ==
    /\ backend = "dtrace"
    /\ \/ /\ stacks
          /\ stacks' \in {FALSE, TRUE}
          /\ stage' = "raw"
          /\ Goto("collapse", "output")
       \/ /\ Panic("failed to open dtrace output file cargo-flamegraph.stacks")
          /\ UNCHANGED << stacks, stage >>
       \/ /\ stacks
          /\ Panic("failed to read dtrace expected output file cargo-flamegraph.stacks")
          /\ UNCHANGED << stacks, stage >>

\* non-linux arch::output: open, read and remove cargo-flamegraph.stacks
output_dtrace ==
    /\ backend = "dtrace"
    /\ \/ /\ stacks
          /\ stacks' = FALSE
          /\ stage' = "raw"
          /\ Goto("collapse", "output")
       \/ /\ Panic("failed to open dtrace output file cargo-flamegraph.stacks")
          /\ UNCHANGED << stacks, stage >>
       \/ /\ stacks
          /\ Panic("failed to read dtrace expected output file cargo-flamegraph.stacks")
          /\ UNCHANGED << stacks, stage >>
       \/ /\ stacks
          /\ Panic("unable to remove cargo-flamegraph.stacks temporary file")
          /\ UNCHANGED << stacks, stage >>

\* let output = arch::output();
Output ==
    /\ pc = "output"
    /\ output_calls' = output_calls + 1
    /\ \/ output_perf
       \/ output_dtrace
    /\ UNCHANGED << envvars, command, sigvars, childvars, announced, artifact >>

\* collapse whose error is not looked at
CollapseIgnoreError ==
    /\ pc = "collapse"
    /\ \/ /\ stage' = "collapsed"
          /\ Goto("announce", "collapse")
       \/ /\ UNCHANGED stage
          /\ Goto("announce", "collapse")
    /\ UNCHANGED << envvars, command, sigvars, childvars, stacks, output_calls,
                    announced, artifact >>

\* Folder::from(collapse_options()).collapse(..).expect(..)
Collapse ==
    /\ pc = "collapse"
    /\ \/ /\ stage' = "collapsed"
          /\ Goto("announce", "collapse")
       \/ /\ Panic("unable to collapse generated profile data")
          /\ UNCHANGED stage
    /\ UNCHANGED << envvars, command, sigvars, childvars, stacks, output_calls,
                    announced, artifact >>

\* the run without the println
AnnounceSilent ==
    /\ pc = "announce"
    /\ UNCHANGED announced
    /\ Goto("create", "announce")
    /\ UNCHANGED << envvars, command, sigvars, childvars, stacks, output_calls,
                    stage, artifact >>

\* println!("writing flamegraph to {:?}", ..), which panics when stdout
\* cannot be written
Announce ==
    /\ pc = "announce"
    /\ \/ /\ announced' = TRUE
          /\ Goto("create", "announce")
       \/ /\ Panic("failed printing to stdout")
          /\ UNCHANGED announced
    /\ UNCHANGED << envvars, command, sigvars, childvars, stacks, output_calls,
                    stage, artifact >>

\* File::create(flamegraph_filename).expect(..): creates or truncates
Create ==
    /\ pc = "create"
    /\ \/ /\ artifact' = "empty"
          /\ Goto("render", "create")
       \/ /\ Panic("unable to create flamegraph.svg output file")
          /\ UNCHANGED artifact
    /\ UNCHANGED << envvars, command, sigvars, childvars, stacks, output_calls,
                    stage, announced >>

\* from_reader whose error is not looked at
RenderIgnoreError ==
    /\ pc = "render"
    /\ artifact' \in {"empty", "partial", "written"}
    /\ pc' = "done"
    /\ exit_code' = 0
    /\ log' = Append(log, "render")
    /\ UNCHANGED stderr
    /\ UNCHANGED << envvars, command, sigvars, childvars, stacks, output_calls,
                    stage, announced >>

\* from_reader(..).expect(..), after which the function returns and the
\* process ends with exit code 0
Render ==
    /\ pc = "render"
    /\ \/ /\ artifact' = "written"
          /\ pc' = "done"
          /\ exit_code' = 0
          /\ log' = Append(log, "render")
          /\ UNCHANGED stderr
       \/ /\ artifact' \in {"empty", "partial"}
          /\ Panic("unable to generate a flamegraph from the collapsed stack data")
    /\ UNCHANGED << envvars, command, sigvars, childvars, stacks, output_calls,
                    stage, announced >>

generate_flamegraph_by_running_command ==
    \/ Register
    \/ Build
    \/ Spawn
    \/ Wait
    \/ Unregister
    \/ Classify
    \/ Output
    \/ Collapse
    \/ Announce
    \/ Create
    \/ Render

Next ==
    \/ generate_flamegraph_by_running_command
    \/ Sigint
    \/ \E status \in Statuses : ChildExit(status)

Spec == Init /\ [][Next]_vars

(***************************************************************************)
(* The three outcomes of the exit classifier, as the specification words   *)
(* them, over a wait status.                                               *)
(***************************************************************************)
IsSuccess(status) == success(status)

IsUserInterrupted(status) ==
    /\ ~success(status)
    /\ signal(status) \in {SIGINT, SIGTERM}

IsFailed(status) ==
    /\ ~success(status)
    /\ signal(status) = None \/ signal(status) \notin {SIGINT, SIGTERM}

InLog(step) == \E i \in DOMAIN log : log[i] = step

SAMPLING_FAILED == "failed to sample program"

\* the positions after the exit status has been classified as no error
AfterClassify == {"output", "collapse", "announce", "create", "render", "done"}

(***************************************************************************)
(* C1                                                                      *)
(***************************************************************************)

C2_SuccessIsNoError ==
    (exit_status # None /\ success(exit_status)) =>
        /\ ~terminated_by_error(exit_status)
        /\ stderr # SAMPLING_FAILED
        /\ pc # "classify" => pc \in AfterClassify \cup {"unregister", "aborted"}

C2_Witness ==
    /\ exit_status # None
    /\ success(exit_status)
    /\ pc = "output"

\* C3: a non-success exit status whose signal is SIGINT or SIGTERM is not
\* taken for an error, and the classification does not abort the run.
C3_InterruptIsNoError ==
    (exit_status # None /\ IsUserInterrupted(exit_status)) =>
        /\ ~terminated_by_error(exit_status)
        /\ stderr # SAMPLING_FAILED
        /\ exit_code # 1

C3_Witness ==
    /\ exit_status = SignaledWith(SIGTERM, 0)
    /\ pc = "collapse"

C5_FailedAbortsWithoutArtifact ==
    (exit_status # None /\ IsFailed(exit_status)
        /\ pc \notin {"unregister", "classify"}) =>
        /\ pc = "aborted"
        /\ stderr = SAMPLING_FAILED
        /\ exit_code = 1
        /\ output_calls = 0
        /\ stage = "none"
        /\ ~announced
        /\ artifact \in {"absent", "old"}

C5_Witness ==
    /\ exit_status = ExitedWith(1)
    /\ pc = "aborted"
    /\ exit_code = 1
    /\ artifact = "absent"

\* C6: after the sampling process was ended by SIGINT or SIGTERM the run
\* reports no sampling error and never exits with code 1 for it; it goes
\* past the classification, aborts only when a later stage fails, and ends
\* with the artifact written and exit code 0 otherwise.
C6_InterruptedRunGoesOn ==
    (exit_status # None /\ IsUserInterrupted(exit_status)) =>
        /\ pc \in AfterClassify \cup {"unregister", "classify", "aborted"}
        /\ pc = "aborted" => InLog("classify") /\ exit_code = PanicExitCode
        /\ pc = "done" => artifact = "written" /\ exit_code = 0
        /\ pc \notin Terminal => stderr = "" /\ exit_code = None

C6_Witness ==
    /\ exit_status = SignaledWith(SIGINT, 0)
    /\ pc = "done"
    /\ artifact = "written"
    /\ exit_code = 0

\* C10, as claimed: arch::output is called at most once, and only after a
\* Success outcome.
C10_RetrievedOnlyAfterSuccess ==
    /\ output_calls <= 1
    /\ output_calls > 0 => exit_status # None /\ IsSuccess(exit_status)

\* C10, amended: arch::output is called at most once, and only after the
\* exit status has been classified and found not Failed, that is Success
\* or UserInterrupted.
C10_RetrievedOnlyAfterNotFailed ==
    /\ output_calls <= 1
    /\ output_calls > 0 =>
          /\ exit_status # None
          /\ InLog("classify")
          /\ IsSuccess(exit_status) \/ IsUserInterrupted(exit_status)

C10_Witness ==
    /\ output_calls = 1
    /\ exit_status # None
    /\ IsUserInterrupted(exit_status)
    /\ stage = "raw"

(***************************************************************************)
(* C7, C8, C9: the interrupt signal                                        *)
(***************************************************************************)

\* C7, as claimed: once the handler has been registered, a run that has
\* ended has released it; SIGINT is handled as before the run.
C7_EveryExitReleasesGuard ==
    (handler # None /\ pc \in Terminal) =>
        /\ actions = {}
        /\ disposition = prior

\* C8: as long as the sampling child exists the no-op action is installed,
\* from before the spawn until after wait has returned, and an interrupt
\* signal delivered meanwhile has not terminated the orchestrator.
C8_InterruptDuringSamplingIsHarmless ==
    /\ pc \in {"build", "spawn", "wait", "unregister"} =>
          disposition = "hook" /\ handler \in actions
    /\ child \in {"running", "exited"} =>
          /\ disposition = "hook"
          /\ handler \in actions
          /\ pc \in {"wait", "aborted"}
    /\ "wait" \in delivered => pc # "killed"
    /\ pc = "killed" => child = "none"

C8_Witness ==
    /\ prior = "SIG_DFL"
    /\ "wait" \in delivered
    /\ exit_status # None
    /\ pc = "classify"

\* C9: once the sampling process has been waited for, an interrupt signal
\* does not stop the run: the run is never killed, it can always take its
\* next step, and it ends either done or with an explicit failure.
C9_InterruptNeverStopsPostProcessing ==
    child = "reaped" =>
        /\ pc # "killed"
        /\ pc \notin Terminal => ENABLED generate_flamegraph_by_running_command
        /\ pc \in Terminal =>
              \/ pc = "done" /\ exit_code = 0
              \/ pc = "aborted" /\ stderr # "" /\ exit_code \notin {None, 0}

C9_Witness ==
    /\ prior = "SIG_DFL"
    /\ delivered \cap {"classify", "output", "collapse", "announce",
                       "create", "render"} # {}
    /\ pc = "done"

(***************************************************************************)
(* C11: arch::output of the dtrace backend, called again                   *)
(***************************************************************************)

OPEN_FAILED == "failed to open dtrace output file cargo-flamegraph.stacks"

\* the steps of a run that has classified the exit status as no error
LogAtOutput ==
    << "register", "build", "spawn", "wait", "unregister", "classify" >>

\* a run of the dtrace backend about to retrieve the output
RetrieveInit ==
    /\ pc = "output"
    /\ backend = "dtrace"
    /\ workload \in Workloads
    /\ command = initial_command(backend, workload)
    /\ prior \in {"SIG_DFL", "SIG_IGN"}
    /\ disposition = "hook"
    /\ actions = {}
    /\ handler = TheSigId
    /\ child = "reaped"
    /\ child_status \in {st \in Statuses : ~terminated_by_error(st)}
    /\ exit_status = child_status
    /\ stacks \in BOOLEAN
    /\ output_calls = 0
    /\ stage = "none"
    /\ announced = FALSE
    /\ artifact \in {"absent", "old"}
    /\ stderr = ""
    /\ exit_code = None
    /\ sigints = 0
    /\ delivered = {}
    /\ log = LogAtOutput

\* arch::output() called, the first time or again with no sampling since
retrieve_output ==
    /\ pc \in {"output", "collapse"}
    /\ output_calls' = output_calls + 1
    /\ output_dtrace
    /\ UNCHANGED << envvars, command, sigvars, childvars, announced, artifact >>

SpecRetrieve == RetrieveInit /\ [][retrieve_output]_vars

\* C11: after a successful retrieval of the dtrace backend the file
\* cargo-flamegraph.stacks is gone, and a second retrieval, with no new
\* sampling in between, fails at opening the file and returns no data.
C11_SecondRetrievalFailsAtOpen ==
    /\ stage = "raw" => ~stacks
    /\ output_calls <= 2
    /\ output_calls = 2 =>
          /\ pc = "aborted"
          /\ stderr = OPEN_FAILED
          /\ exit_code = PanicExitCode

C11_Witness ==
    /\ output_calls = 2
    /\ stage = "raw"
    /\ pc = "aborted"
    /\ stderr = OPEN_FAILED

(***************************************************************************)
(* C12: the command line of the perf backend                               *)
(***************************************************************************)

\* record -F 99 --call-graph dwarf -g, argument by argument
PerfFixedArgs ==
    << << "r", "e", "c", "o", "r", "d" >>,
       << "-", "F" >>,
       << "9", "9" >>,
       << "-", "-", "c", "a", "l", "l", "-", "g", "r", "a", "p", "h" >>,
       << "d", "w", "a", "r", "f" >>,
       << "-", "g" >> >>

\* the tokens written one after the other with one blank between them
RECURSIVE Join(_)
Join(tokens) ==
    IF tokens = << >>
    THEN << >>
    ELSE IF Len(tokens) = 1
         THEN tokens[1]
         ELSE tokens[1] \o << " " >> \o Join(Tail(tokens))

RECURSIVE squeeze(_, _)
squeeze(w, afterBlank) ==
    IF w = << >>
    THEN << >>
    ELSE IF Head(w) = " "
         THEN IF afterBlank
              THEN squeeze(Tail(w), TRUE)
              ELSE << " " >> \o squeeze(Tail(w), TRUE)
         ELSE << Head(w) >> \o squeeze(Tail(w), FALSE)

\* the workload without leading and trailing blanks and with every run of
\* blanks written as one blank
Squeeze(w) ==
    LET q == squeeze(w, TRUE)
    IN  IF q # << >> /\ q[Len(q)] = " " THEN SubSeq(q, 1, Len(q) - 1) ELSE q

\* C12: the command of the perf backend is perf with the arguments record,
\* -F, 99, --call-graph, dwarf, -g followed by the workload's tokens and
\* nothing else: every token is non-empty and free of whitespace, and the
\* tokens in their order, a blank between them, spell the workload.
C12_PerfCommandIsFlagsThenTokens ==
    (backend = "perf" /\ command # NoCommand) =>
        /\ command.program = "perf"
        /\ Len(command.args) >= Len(PerfFixedArgs)
        /\ SubSeq(command.args, 1, Len(PerfFixedArgs)) = PerfFixedArgs
        /\ LET tokens == SubSeq(command.args, Len(PerfFixedArgs) + 1,
                                Len(command.args))
           IN  /\ \A i \in DOMAIN tokens :
                     /\ tokens[i] # << >>
                     /\ \A j \in DOMAIN tokens[i] :
                           tokens[i][j] \notin Whitespace
               /\ Join(tokens) = Squeeze(workload)

C12_Witness ==
    /\ backend = "perf"
    /\ workload = << "a", " ", "b" >>
    /\ command.args = PerfFixedArgs \o << << "a" >>, << "b" >> >>
    /\ child = "running"

(***************************************************************************)
(* C13, C14: acquisition and release of the interrupt handler              *)
(***************************************************************************)

REGISTER_FAILED == "cannot register signal handler"

\* C13, as claimed: the handler is released after wait has returned and
\* before the classification, and from then on SIGINT is handled as before
\* the acquisition; the no-op handler is in force only between acquisition
\* and release.
C13_ReleaseRestoresDisposition ==
    /\ pc \in {"classify"} \cup AfterClassify =>
          InLog("wait") /\ InLog("unregister")
    /\ InLog("unregister") => disposition = prior /\ handler \notin actions
    /\ disposition = "hook" => handler # None /\ ~InLog("unregister")

\* C14, as claimed: a failed registration aborts the run before a command
\* is built or a child spawned, and the deregistration can end the run as
\* a fatal failure too.
C14_RegisterAndUnregisterFailuresAreFatal ==
    /\ stderr = REGISTER_FAILED =>
          pc = "aborted" /\ command = NoCommand /\ child = "none"
    /\ handler = None => command = NoCommand /\ child = "none"
    /\ pc = "unregister" => ENABLED (Unregister /\ pc' = "aborted")

\* C14, amended: a failed registration aborts the run before a command is
\* built or a child spawned, so a run without handler has no child; the
\* deregistration has no failure outcome: whatever unregister returns, the
\* run goes on to the classification, and an abort between wait and the
\* end of the classification is the classification's.
C14_OnlyRegisterFailureIsFatal ==
    /\ stderr = REGISTER_FAILED =>
          /\ pc = "aborted"
          /\ exit_code = PanicExitCode
          /\ log = << >>
          /\ command = NoCommand
          /\ child = "none"
    /\ handler = None => command = NoCommand /\ child = "none"
    /\ pc = "unregister" => ~ENABLED (Unregister /\ pc' = "aborted")
    /\ (pc = "aborted" /\ InLog("wait") /\ ~InLog("classify")) =>
          InLog("unregister") /\ stderr = SAMPLING_FAILED

C14_Witness ==
    /\ stderr = REGISTER_FAILED
    /\ pc = "aborted"
    /\ handler = None
    /\ child = "none"

(***************************************************************************)
(* C15: the announcement                                                   *)
(***************************************************************************)

CREATE_FAILED == "unable to create flamegraph.svg output file"

\* C15, as claimed: the location is announced only once the artifact has
\* been written in full, so no run announces it and then fails.
C15_AnnouncedOnlyWhenWritten ==
    announced => artifact = "written" /\ pc = "done"

\* C15, amended: the location is announced after the collapse stage has
\* succeeded and before the artifact file is created; every run that has
\* created or written the artifact has announced it before.
C15_AnnouncedBeforeCreation ==
    /\ announced <=> InLog("announce")
    /\ announced => stage = "collapsed" /\ InLog("collapse")
    /\ artifact \in {"empty", "partial", "written"} => announced
    /\ pc \in {"create", "render", "done"} => announced
    /\ (announced /\ ~InLog("create")) => artifact \in {"absent", "old"}

\* announced, and then the file could not be created
C15_Witness ==
    /\ announced
    /\ pc = "aborted"
    /\ stderr = CREATE_FAILED
    /\ artifact = "absent"

(***************************************************************************)
(* C16: the intermediate file of the dtrace backend                        *)
(***************************************************************************)

\* C16: in a run of the dtrace backend the file cargo-flamegraph.stacks
\* does not exist in any state after the retrieval: not while collapsing,
\* announcing, creating or rendering, not when the run is done, and not
\* when one of these stages has aborted it.
C16_StacksFileGoneAfterRetrieval ==
    backend = "dtrace" =>
        /\ pc \in {"collapse", "announce", "create", "render", "done"} => ~stacks
        /\ (pc = "aborted" /\ InLog("output")) => ~stacks
        /\ stage # "none" => ~stacks

C16_Witness ==
    /\ backend = "dtrace"
    /\ pc = "done"
    /\ artifact = "written"
    /\ ~stacks

(***************************************************************************)
(* C17: the run is a linear pipeline                                       *)
(***************************************************************************)

\* the statements of the function in their order
FullLog ==
    << "register", "build", "spawn", "wait", "unregister", "classify",
       "output", "collapse", "announce", "create", "render" >>

IsPrefix(s, t) ==
    /\ Len(s) <= Len(t)
    /\ \A i \in DOMAIN s : s[i] = t[i]

Linear ==
    /\ IsPrefix(log, FullLog)
    /\ pc \notin Terminal => pc = FullLog[Len(log) + 1]
    /\ pc = "done" <=> log = FullLog
    /\ pc = "done" =>
          /\ artifact = "written"
          /\ stage = "collapsed"
          /\ child = "reaped"
          /\ ~IsFailed(exit_status)
    /\ child = "none" <=> ~InLog("spawn")
    /\ child = "reaped" <=> InLog("wait")
    /\ exit_status # None <=> InLog("wait")
    /\ output_calls <= 1
    /\ InLog("output") => output_calls = 1

\* C17: the steps of a run happen at most once each and in the order of
\* the function; the child is spawned once and waited for once; done is
\* reached exactly when every step has succeeded; a run that has ended
\* takes no further step, and a step that has failed is not taken again.
C17_LinearPipeline ==
    /\ []Linear
    /\ [][/\ pc \in Terminal => pc' = pc /\ log' = log
          /\ log' # log => pc \notin Terminal /\ log' = Append(log, pc)
          /\ pc' # pc => pc' \in Terminal \/ log' = Append(log, pc)]_vars

C17_Witness ==
    /\ pc = "done"
    /\ log = FullLog
    /\ output_calls = 1

(***************************************************************************)
(* C18: the wait is blocking                                               *)
(***************************************************************************)

\* the runs with a workload of at most one character: no step of the
\* function but Build reads the workload
FairInit == Init /\ Len(workload) <= 1

\* the steps of the function are taken as long as one is possible
FairSpec ==
    /\ FairInit
    /\ [][Next]_vars
    /\ WF_vars(generate_flamegraph_by_running_command)

\* C18: as long as the child has not ended the run is in the wait and can
\* take no step of its own, whatever time passes and whatever signal is
\* delivered; once the child has ended the run reaches done or aborted.
C18_BlocksUntilChildExits ==
    /\ [](child = "running" =>
            /\ pc = "wait"
            /\ exit_code = None
            /\ ~ENABLED generate_flamegraph_by_running_command)
    /\ [][(child = "running" /\ child' = "running") =>
              pc' = "wait" /\ log' = log]_vars
    /\ (child = "exited") ~> (pc \in {"done", "aborted"})

C18_Witness ==
    /\ child = "running"
    /\ pc = "wait"
    /\ "wait" \in delivered

(***************************************************************************)
(* C19: when the artifact file is touched                                  *)
(***************************************************************************)

RENDER_FAILED == "unable to generate a flamegraph from the collapsed stack data"

Created == artifact \in {"empty", "partial", "written"}

\* C19: the artifact file is created or truncated only after the exit
\* status was classified as not Failed, the raw output was retrieved and
\* the collapse succeeded; a run that has aborted before File::create, or
\* at it, has left the artifact path as it was, and an aborted run with a
\* created file is one whose render stage failed.
C19_ArtifactTouchedOnlyAfterCollapse ==
    /\ Created =>
          /\ InLog("classify")
          /\ exit_status # None
          /\ ~IsFailed(exit_status)
          /\ output_calls = 1
          /\ InLog("collapse")
          /\ stage = "collapsed"
          /\ InLog("create")
    /\ ~InLog("create") => artifact \in {"absent", "old"}
    /\ (pc = "aborted" /\ Created) => stderr = RENDER_FAILED

C19_Witness ==
    /\ pc = "aborted"
    /\ stderr = RENDER_FAILED
    /\ artifact = "partial"
====
